---- MODULE Spec2Model ----
(***************************************************************************)
(* AuthService of remix-bunjs (app/services/auth-service.ts): signup,      *)
(* login, logout, session validation, email verification and password      *)
(* reset over the four tables of db/schema.ts.  Time is counted in         *)
(* minutes.  Identifiers that the code draws from a random generator       *)
(* (user ids, session ids, reset tokens) are drawn from counters, so an     *)
(* identifier is never issued twice.                                       *)
(***************************************************************************)
EXTENDS Integers, Sequences, FiniteSets

\* ---------------------------------------------------------------- bounds
\* session ids and reset tokens that may be issued in one behaviour
MaxSessions == 2
MaxTokens == 1

\* ------------------------------------------------------ program constants
\* minutes
SessionExpiresIn == 43200
CodeExpiresIn == 15
TokenExpiresIn == 120

\* addresses callers supply; only those of SignupEmails ever sign up
Emails == {"a@test.com", "fake"}
SignupEmails == {"a@test.com"}
Passwords == {"pw1", "pw2"}
Codes == {"11111111", "22222222"}
Domains == {"https://test.com"}
\* the instants at which calls are made: the start, just after the first
\* half of the life of a session created at the start, and the end of its life
Instants == {0, SessionExpiresIn \div 2 + 1, SessionExpiresIn}

\* the callers whose calls can overlap
Procs == {1, 2}
Idle == [op |-> "idle", pc |-> "done"]

VARIABLES
  users,                    \* table user, in rowid order
  sessions,                 \* table session
  emailVerificationCodes,   \* table email_verification_code
  passwordResetTokens,      \* table password_reset_token
  now,                      \* Date.now()
  nextUserId,               \* generateIdFromEntropySize(10) for users
  nextSessionId,            \* session ids generated by lucia.createSession
  nextToken,                \* generateIdFromEntropySize(25) for reset tokens
  lastOp,                   \* the call that returned last: arguments, result, emails sent
  calls                     \* per caller, the call it has in progress or has got the
                            \* result of, when calls overlap at their awaits

vars == <<users, sessions, emailVerificationCodes, passwordResetTokens,
          now, nextUserId, nextSessionId, nextToken, lastOp, calls>>

\* the columns of the four tables (db/schema.ts)
TypeOK ==
  /\ \A i \in 1..Len(users) :
       /\ DOMAIN users[i] = {"id", "email", "emailVerified", "passwordHash"}
       /\ users[i].id \in 1..(nextUserId - 1)
       /\ users[i].email \in Emails
       /\ users[i].emailVerified \in BOOLEAN
  /\ \A x \in sessions :
       /\ DOMAIN x = {"id", "userId", "expiresAt"}
       /\ x.id \in 1..(nextSessionId - 1)
       /\ x.expiresAt \in Nat
  /\ \A c \in emailVerificationCodes :
       /\ DOMAIN c = {"id", "code", "userId", "email", "expiresAt"}
       /\ c.id \in Nat
       /\ c.code \in Codes
       /\ c.email \in Emails
       /\ c.expiresAt \in Nat
  /\ \A k \in passwordResetTokens :
       /\ DOMAIN k = {"tokenHash", "userId", "expiresAt"}
       /\ k.expiresAt \in Nat
  /\ now \in Instants

\* ------------------------------------------------------------ result type
Success(data) == [type |-> "success", data |-> data]
Failure(error) == [type |-> "failure", error |-> error]

\* ------------------------------------------------------ hashing functions
\* Bun.password.hash: a one-way hash of the password (the salt is left out:
\* Bun.password.verify does not depend on it).
PasswordHash(password) == [alg |-> "argon2id", of |-> password]
PasswordVerify(password, hash) == hash = PasswordHash(password)

\* Bun.CryptoHasher("sha256").update(token).digest("hex")
Sha256(token) == [alg |-> "sha256", of |-> token]

\* `${domain}/reset-password?token=${tokenId}`
VerificationLink(domain, tokenId) == <<domain, "/reset-password?token=", tokenId>>

\* ------------------------------------------------------- store primitives
\* drizzle.query.users.findFirst({ where: eq(users.email, email) }):
\* the matching rows in rowid order; the code takes the first, if any.
UsersByEmail(us, email) == SelectSeq(us, LAMBDA u: u.email = email)

UserIds(us) == {us[i].id : i \in 1..Len(us)}
UserById(us, id) == CHOOSE u \in {us[i] : i \in 1..Len(us)} : u.id = id
UserView(u) == [id |-> u.id, email |-> u.email, emailVerified |-> u.emailVerified]

SessionIds(ss) == {s.id : s \in ss}
SessionById(ss, id) == CHOOSE s \in ss : s.id = id

\* createSession with half the session lifetime
LuciaCreateSession_HalfLife(ss, id, userId, t) ==
  ss \cup {[id |-> id, userId |-> userId, expiresAt |-> t + SessionExpiresIn \div 2]}

\* lucia.createSession(userId, {}): a row expiring sessionExpiresIn from now
LuciaCreateSession(ss, id, userId, t) ==
  ss \cup {[id |-> id, userId |-> userId, expiresAt |-> t + SessionExpiresIn]}

\* lucia.invalidateSession(sessionId)
LuciaInvalidateSession(ss, id) == {s \in ss : s.id # id}

\* lucia.invalidateUserSessions(userId)
LuciaInvalidateUserSessions(ss, userId) == {s \in ss : s.userId # userId}


\* null, as lucia returns it for the session and the user
Null == [null |-> TRUE]

\* lucia.validateSession that reports a session fresh without moving its expiry
LuciaValidateSession_NoExtend(us, ss, id, t) ==
  IF id \notin SessionIds(ss)
  THEN [sessions |-> ss, session |-> Null, user |-> Null]
  ELSE LET s == SessionById(ss, id) IN
    IF s.userId \notin UserIds(us)
    THEN [sessions |-> LuciaInvalidateSession(ss, id), session |-> Null, user |-> Null]
    ELSE IF ~(t < s.expiresAt)
    THEN [sessions |-> LuciaInvalidateSession(ss, id), session |-> Null, user |-> Null]
    ELSE [sessions |-> ss,
          session |-> [id |-> s.id, userId |-> s.userId,
                       fresh |-> ~(t < s.expiresAt - SessionExpiresIn \div 2),
                       expiresAt |-> s.expiresAt],
          user |-> UserView(UserById(us, s.userId))]

\* lucia.validateSession(sessionId) of lucia 3.x: no row, a row whose user is
\* gone, or a row at or past its expiry gives no session and no user (the
\* last two delete the row); a row in the second half of its life has its
\* expiry moved to now + sessionExpiresIn and is reported fresh, under the
\* same id.
LuciaValidateSession(us, ss, id, t) ==
  IF id \notin SessionIds(ss)
  THEN [sessions |-> ss, session |-> Null, user |-> Null]
  ELSE LET s == SessionById(ss, id) IN
    IF s.userId \notin UserIds(us)
    THEN [sessions |-> LuciaInvalidateSession(ss, id), session |-> Null, user |-> Null]
    ELSE IF ~(t < s.expiresAt)
    THEN [sessions |-> LuciaInvalidateSession(ss, id), session |-> Null, user |-> Null]
    ELSE IF ~(t < s.expiresAt - SessionExpiresIn \div 2)
    THEN [sessions |-> (ss \ {s}) \cup {[s EXCEPT !.expiresAt = t + SessionExpiresIn]},
          session |-> [id |-> s.id, userId |-> s.userId, fresh |-> TRUE,
                       expiresAt |-> t + SessionExpiresIn],
          user |-> UserView(UserById(us, s.userId))]
    ELSE [sessions |-> ss,
          session |-> [id |-> s.id, userId |-> s.userId, fresh |-> FALSE,
                       expiresAt |-> s.expiresAt],
          user |-> UserView(UserById(us, s.userId))]

\* id of a row inserted into email_verification_code (integer primary key
\* without autoincrement: one more than the largest rowid in the table)
NextCodeRowId(cs) ==
  IF cs = {} THEN 1 ELSE 1 + (CHOOSE m \in {c.id : c \in cs} : \A c \in cs : c.id <= m)

\* ------------------------------------------------------------- handlers
\* Each handler is a function of the tables it reads, the clock, the
\* identifiers it generates and its arguments; it gives the tables it
\* writes, the emails it sends and its result.

\* validateSession that takes a refreshed session for an invalid one
ValidateSessionOutcome_FreshInvalid(us, ss, t, sessionId) ==
  LET r == LuciaValidateSession(us, ss, sessionId, t) IN
  [sessions |-> r.sessions,
   result |-> IF r.user = Null \/ r.session.fresh THEN Failure("invalid_session")
              ELSE Success([user |-> r.user])]

\* validateSession that never reports the refreshed session
ValidateSessionOutcome_NoFresh(us, ss, t, sessionId) ==
  LET r == LuciaValidateSession(us, ss, sessionId, t) IN
  [sessions |-> r.sessions,
   result |-> IF r.user = Null THEN Failure("invalid_session")
              ELSE Success([user |-> r.user])]

\* AuthService.validateSession
ValidateSessionOutcome(us, ss, t, sessionId) ==
  LET r == LuciaValidateSession(us, ss, sessionId, t) IN
  [sessions |-> r.sessions,
   result |-> IF r.user = Null THEN Failure("invalid_session")
              ELSE IF r.session # Null /\ r.session.fresh
              THEN Success([user |-> r.user, freshSessionId |-> r.session.id])
              ELSE Success([user |-> r.user])]

\* createEmailVerificationCode that keeps the user's earlier code
CreateEmailVerificationCodeOutcome_KeepEarlier(cs, t, userId, email, code, sendOk) ==
  LET row == [id |-> NextCodeRowId(cs), code |-> code, userId |-> userId,
              email |-> email, expiresAt |-> t + CodeExpiresIn]
  IN [codes |-> cs \cup {row},
      sent |-> <<[kind |-> "confirm", to |-> email, code |-> code, ok |-> sendOk]>>,
      result |-> IF sendOk THEN Success("null") ELSE Failure("email_send_error")]

\* createEmailVerificationCode that removes the new code when the send fails
CreateEmailVerificationCodeOutcome_RollBack(cs, t, userId, email, code, sendOk) ==
  LET kept == {c \in cs : c.userId # userId}
      row == [id |-> NextCodeRowId(kept), code |-> code, userId |-> userId,
              email |-> email, expiresAt |-> t + CodeExpiresIn]
  IN [codes |-> IF sendOk THEN kept \cup {row} ELSE kept,
      sent |-> <<[kind |-> "confirm", to |-> email, code |-> code, ok |-> sendOk]>>,
      result |-> IF sendOk THEN Success("null") ELSE Failure("email_send_error")]

\* createEmailVerificationCode that stores the code and sends nothing
CreateEmailVerificationCodeOutcome_NoSend(cs, t, userId, email, code, sendOk) ==
  LET kept == {c \in cs : c.userId # userId}
      row == [id |-> NextCodeRowId(kept), code |-> code, userId |-> userId,
              email |-> email, expiresAt |-> t + CodeExpiresIn]
  IN [codes |-> kept \cup {row}, sent |-> <<>>, result |-> Success("null")]

\* AuthService.createEmailVerificationCode
CreateEmailVerificationCodeOutcome(cs, t, userId, email, code, sendOk) ==
  LET kept == {c \in cs : c.userId # userId}
      row == [id |-> NextCodeRowId(kept), code |-> code, userId |-> userId,
              email |-> email, expiresAt |-> t + CodeExpiresIn]
  IN [codes |-> kept \cup {row},
      sent |-> <<[kind |-> "confirm", to |-> email, code |-> code, ok |-> sendOk]>>,
      result |-> IF sendOk THEN Success("null") ELSE Failure("email_send_error")]

\* signup that returns the failure of createEmailVerificationCode
SignupOutcome_Propagate(us, ss, cs, t, userId, sessionId, email, password, code, sendOk) ==
  IF UsersByEmail(us, email) # <<>>
  THEN [users |-> us, sessions |-> ss, codes |-> cs, sent |-> <<>>,
        result |-> Failure("user_exists")]
  ELSE LET c == CreateEmailVerificationCodeOutcome(cs, t, userId, email, code, sendOk) IN
       [users |-> Append(us, [id |-> userId, email |-> email, emailVerified |-> FALSE,
                               passwordHash |-> PasswordHash(password)]),
        sessions |-> IF sendOk THEN LuciaCreateSession(ss, sessionId, userId, t) ELSE ss,
        codes |-> c.codes,
        sent |-> c.sent,
        result |-> IF sendOk THEN Success([sessionId |-> sessionId]) ELSE c.result]

\* signup without the lookup of an existing user
SignupOutcome_NoLookup(us, ss, cs, t, userId, sessionId, email, password, code, sendOk) ==
  LET c == CreateEmailVerificationCodeOutcome(cs, t, userId, email, code, sendOk) IN
  [users |-> Append(us, [id |-> userId, email |-> email, emailVerified |-> FALSE,
                          passwordHash |-> PasswordHash(password)]),
   sessions |-> LuciaCreateSession(ss, sessionId, userId, t),
   codes |-> c.codes,
   sent |-> c.sent,
   result |-> Success([sessionId |-> sessionId])]

\* AuthService.signup
SignupOutcome(us, ss, cs, t, userId, sessionId, email, password, code, sendOk) ==
  IF UsersByEmail(us, email) # <<>>
  THEN [users |-> us, sessions |-> ss, codes |-> cs, sent |-> <<>>,
        result |-> Failure("user_exists")]
  ELSE LET c == CreateEmailVerificationCodeOutcome(cs, t, userId, email, code, sendOk) IN
       [users |-> Append(us, [id |-> userId, email |-> email, emailVerified |-> FALSE,
                               passwordHash |-> PasswordHash(password)]),
        sessions |-> LuciaCreateSession(ss, sessionId, userId, t),
        codes |-> c.codes,
        sent |-> c.sent,
        result |-> Success([sessionId |-> sessionId])]

\* login without the password check
LoginOutcome_NoVerify(us, ss, t, sessionId, email, password) ==
  LET found == UsersByEmail(us, email) IN
  IF found = <<>>
  THEN [sessions |-> ss, result |-> Failure("user_not_found")]
  ELSE [sessions |-> LuciaCreateSession(ss, sessionId, Head(found).id, t),
        result |-> Success([sessionId |-> sessionId])]

\* AuthService.login
LoginOutcome(us, ss, t, sessionId, email, password) ==
  LET found == UsersByEmail(us, email) IN
  IF found = <<>>
  THEN [sessions |-> ss, result |-> Failure("user_not_found")]
  ELSE IF ~PasswordVerify(password, Head(found).passwordHash)
  THEN [sessions |-> ss, result |-> Failure("invalid_credentials")]
  ELSE [sessions |-> LuciaCreateSession(ss, sessionId, Head(found).id, t),
        result |-> Success([sessionId |-> sessionId])]

\* checkEmailCode that deletes the stored code whatever code was supplied
CheckEmailCode_DeleteAlways(cs, t, user, code) ==
  LET rows == {c \in cs : c.userId = user.id} IN
  IF rows = {}
  THEN [codes |-> cs, response |-> "invalid"]
  ELSE LET row == CHOOSE c \in rows : TRUE IN
    IF code # row.code
    THEN [codes |-> {c \in cs : c.id # row.id}, response |-> "invalid"]
    ELSE [codes |-> {c \in cs : c.id # row.id},
          response |-> IF row.expiresAt < t THEN "expired"
                       ELSE IF row.email # user.email THEN "expired"
                       ELSE "valid"]

\* checkEmailCode without the comparison of the code's email with the user's
CheckEmailCode_NoEmailCheck(cs, t, user, code) ==
  LET rows == {c \in cs : c.userId = user.id} IN
  IF rows = {}
  THEN [codes |-> cs, response |-> "invalid"]
  ELSE LET row == CHOOSE c \in rows : TRUE IN
    IF code # row.code
    THEN [codes |-> cs, response |-> "invalid"]
    ELSE [codes |-> {c \in cs : c.id # row.id},
          response |-> IF row.expiresAt < t THEN "expired" ELSE "valid"]

\* checkEmailCode without the expiry check
CheckEmailCode_NoExpiry(cs, t, user, code) ==
  LET rows == {c \in cs : c.userId = user.id} IN
  IF rows = {}
  THEN [codes |-> cs, response |-> "invalid"]
  ELSE LET row == CHOOSE c \in rows : TRUE IN
    IF code # row.code
    THEN [codes |-> cs, response |-> "invalid"]
    ELSE [codes |-> {c \in cs : c.id # row.id},
          response |-> IF row.email # user.email THEN "expired" ELSE "valid"]

\* AuthService.checkEmailCode
CheckEmailCode(cs, t, user, code) ==
  LET rows == {c \in cs : c.userId = user.id} IN
  IF rows = {}
  THEN [codes |-> cs, response |-> "invalid"]
  ELSE LET row == CHOOSE c \in rows : TRUE IN
    IF code # row.code
    THEN [codes |-> cs, response |-> "invalid"]
    ELSE [codes |-> {c \in cs : c.id # row.id},
          response |-> IF row.expiresAt < t THEN "expired"
                       ELSE IF row.email # user.email THEN "expired"
                       ELSE "valid"]

\* verifyEmailCode that leaves the user's earlier sessions in place
VerifyEmailCodeOutcome_KeepSessions(us, ss, cs, t, sessionId, user, code) ==
  LET chk == CheckEmailCode(cs, t, user, code) IN
  IF chk.response = "invalid"
  THEN [users |-> us, sessions |-> ss, codes |-> chk.codes,
        result |-> Failure("invalid_code")]
  ELSE IF chk.response = "expired"
  THEN [users |-> us, sessions |-> ss, codes |-> chk.codes,
        result |-> Failure("expired_code")]
  ELSE [users |-> [i \in 1..Len(us) |->
                     IF us[i].id = user.id THEN [us[i] EXCEPT !.emailVerified = TRUE]
                     ELSE us[i]],
        sessions |-> LuciaCreateSession(ss, sessionId, user.id, t),
        codes |-> chk.codes,
        result |-> Success([sessionId |-> sessionId])]

\* verifyEmailCode that marks the email verified also when the code has expired
VerifyEmailCodeOutcome_VerifyOnExpired(us, ss, cs, t, sessionId, user, code) ==
  LET chk == CheckEmailCode(cs, t, user, code)
      verified == [i \in 1..Len(us) |->
                     IF us[i].id = user.id THEN [us[i] EXCEPT !.emailVerified = TRUE]
                     ELSE us[i]]
  IN
  IF chk.response = "invalid"
  THEN [users |-> us, sessions |-> ss, codes |-> chk.codes,
        result |-> Failure("invalid_code")]
  ELSE IF chk.response = "expired"
  THEN [users |-> verified, sessions |-> ss, codes |-> chk.codes,
        result |-> Failure("expired_code")]
  ELSE [users |-> verified,
        sessions |-> LuciaCreateSession(LuciaInvalidateUserSessions(ss, user.id),
                                        sessionId, user.id, t),
        codes |-> chk.codes,
        result |-> Success([sessionId |-> sessionId])]

\* AuthService.verifyEmailCode
VerifyEmailCodeOutcome(us, ss, cs, t, sessionId, user, code) ==
  LET chk == CheckEmailCode(cs, t, user, code) IN
  IF chk.response = "invalid"
  THEN [users |-> us, sessions |-> ss, codes |-> chk.codes,
        result |-> Failure("invalid_code")]
  ELSE IF chk.response = "expired"
  THEN [users |-> us, sessions |-> ss, codes |-> chk.codes,
        result |-> Failure("expired_code")]
  ELSE [users |-> [i \in 1..Len(us) |->
                     IF us[i].id = user.id THEN [us[i] EXCEPT !.emailVerified = TRUE]
                     ELSE us[i]],
        sessions |-> LuciaCreateSession(LuciaInvalidateUserSessions(ss, user.id),
                                        sessionId, user.id, t),
        codes |-> chk.codes,
        result |-> Success([sessionId |-> sessionId])]

\* logout that deletes every session of the user the session belongs to
LogoutOutcome_AllOfUser(ss, sessionId, fault) ==
  [sessions |-> IF fault THEN ss
                ELSE {x \in ss : \A y \in ss : y.id = sessionId => x.userId # y.userId},
   result |-> Success("null")]

\* logout that leaves the session row in place
LogoutOutcome_NoDelete(ss, sessionId, fault) ==
  [sessions |-> ss, result |-> Success("null")]

\* AuthService.logout: a fault raised by lucia.invalidateSession (its one
\* DELETE statement did not run) is caught and logged.
LogoutOutcome(ss, sessionId, fault) ==
  [sessions |-> IF fault THEN ss ELSE LuciaInvalidateSession(ss, sessionId),
   result |-> Success("null")]

\* createPasswordResetToken that stores the token as it is
CreatePasswordResetToken_Plain(ts, t, userId, tokenId) ==
  {r \in ts : r.userId # userId}
    \cup {[tokenHash |-> [alg |-> "none", of |-> tokenId], userId |-> userId,
           expiresAt |-> t + TokenExpiresIn]}

\* createPasswordResetToken that keeps the user's earlier token
CreatePasswordResetToken_KeepEarlier(ts, t, userId, tokenId) ==
  ts \cup {[tokenHash |-> Sha256(tokenId), userId |-> userId, expiresAt |-> t + TokenExpiresIn]}

\* AuthService.createPasswordResetToken
CreatePasswordResetToken(ts, t, userId, tokenId) ==
  {r \in ts : r.userId # userId}
    \cup {[tokenHash |-> Sha256(tokenId), userId |-> userId, expiresAt |-> t + TokenExpiresIn]}

\* resetPasswordRequest that ignores the response of the email service
ResetPasswordRequestOutcome_IgnoreSend(us, ts, t, tokenId, domain, email, sendOk) ==
  LET found == UsersByEmail(us, email) IN
  IF found = <<>>
  THEN [tokens |-> ts, sent |-> <<>>, result |-> Failure("email_not_found")]
  ELSE [tokens |-> CreatePasswordResetToken(ts, t, Head(found).id, tokenId),
        sent |-> <<[kind |-> "reset", to |-> email,
                    link |-> VerificationLink(domain, tokenId), ok |-> sendOk]>>,
        result |-> Success([tokenId |-> tokenId])]

\* AuthService.resetPasswordRequest
ResetPasswordRequestOutcome(us, ts, t, tokenId, domain, email, sendOk) ==
  LET found == UsersByEmail(us, email) IN
  IF found = <<>>
  THEN [tokens |-> ts, sent |-> <<>>, result |-> Failure("email_not_found")]
  ELSE [tokens |-> CreatePasswordResetToken(ts, t, Head(found).id, tokenId),
        sent |-> <<[kind |-> "reset", to |-> email,
                    link |-> VerificationLink(domain, tokenId), ok |-> sendOk]>>,
        result |-> IF sendOk THEN Success([tokenId |-> tokenId])
                   ELSE Failure("email_send_error")]

\* resetPassword that does not write the new password hash
ResetPasswordOutcome_NoUpdate(us, ss, ts, t, sessionId, newPassword, token) ==
  LET rows == {r \in ts : r.tokenHash = Sha256(token)} IN
  IF rows = {}
  THEN [users |-> us, sessions |-> ss, tokens |-> ts, result |-> Failure("invalid_code")]
  ELSE LET row == CHOOSE r \in rows : TRUE IN
    IF row.expiresAt < t
    THEN [users |-> us, sessions |-> ss, tokens |-> ts, result |-> Failure("code_expired")]
    ELSE [users |-> us,
          sessions |-> LuciaCreateSession(LuciaInvalidateUserSessions(ss, row.userId),
                                          sessionId, row.userId, t),
          tokens |-> ts,
          result |-> Success([sessionId |-> sessionId])]

\* resetPassword that deletes the token it accepted
ResetPasswordOutcome_Consume(us, ss, ts, t, sessionId, newPassword, token) ==
  LET rows == {r \in ts : r.tokenHash = Sha256(token)} IN
  IF rows = {}
  THEN [users |-> us, sessions |-> ss, tokens |-> ts, result |-> Failure("invalid_code")]
  ELSE LET row == CHOOSE r \in rows : TRUE IN
    IF row.expiresAt < t
    THEN [users |-> us, sessions |-> ss, tokens |-> ts, result |-> Failure("code_expired")]
    ELSE [users |-> [i \in 1..Len(us) |->
                       IF us[i].id = row.userId
                       THEN [us[i] EXCEPT !.passwordHash = PasswordHash(newPassword)]
                       ELSE us[i]],
          sessions |-> LuciaCreateSession(LuciaInvalidateUserSessions(ss, row.userId),
                                          sessionId, row.userId, t),
          tokens |-> ts \ {row},
          result |-> Success([sessionId |-> sessionId])]

\* resetPassword that invalidates the user's sessions before it looks at the
\* token's expiry
ResetPasswordOutcome_InvalidateOnExpired(us, ss, ts, t, sessionId, newPassword, token) ==
  LET rows == {r \in ts : r.tokenHash = Sha256(token)} IN
  IF rows = {}
  THEN [users |-> us, sessions |-> ss, tokens |-> ts, result |-> Failure("invalid_code")]
  ELSE LET row == CHOOSE r \in rows : TRUE IN
    IF row.expiresAt < t
    THEN [users |-> us, sessions |-> LuciaInvalidateUserSessions(ss, row.userId),
          tokens |-> ts, result |-> Failure("code_expired")]
    ELSE [users |-> [i \in 1..Len(us) |->
                       IF us[i].id = row.userId
                       THEN [us[i] EXCEPT !.passwordHash = PasswordHash(newPassword)]
                       ELSE us[i]],
          sessions |-> LuciaCreateSession(LuciaInvalidateUserSessions(ss, row.userId),
                                          sessionId, row.userId, t),
          tokens |-> ts,
          result |-> Success([sessionId |-> sessionId])]

\* AuthService.resetPassword; it writes nothing to the token table
ResetPasswordOutcome(us, ss, ts, t, sessionId, newPassword, token) ==
  LET rows == {r \in ts : r.tokenHash = Sha256(token)} IN
  IF rows = {}
  THEN [users |-> us, sessions |-> ss, tokens |-> ts, result |-> Failure("invalid_code")]
  ELSE LET row == CHOOSE r \in rows : TRUE IN
    IF row.expiresAt < t
    THEN [users |-> us, sessions |-> ss, tokens |-> ts, result |-> Failure("code_expired")]
    ELSE [users |-> [i \in 1..Len(us) |->
                       IF us[i].id = row.userId
                       THEN [us[i] EXCEPT !.passwordHash = PasswordHash(newPassword)]
                       ELSE us[i]],
          sessions |-> LuciaCreateSession(LuciaInvalidateUserSessions(ss, row.userId),
                                          sessionId, row.userId, t),
          tokens |-> ts,
          result |-> Success([sessionId |-> sessionId])]


\* ---------------------------------------------------------------- state
Init ==
  /\ users = <<>>
  /\ sessions = {}
  /\ emailVerificationCodes = {}
  /\ passwordResetTokens = {}
  /\ now = 0
  /\ nextUserId = 1
  /\ nextSessionId = 1
  /\ nextToken = 1
  /\ lastOp = [op |-> "init"]
  /\ calls = [p \in Procs |-> Idle]

\* Identifiers a caller can supply: those issued so far, and 0 for a value
\* the generator never produces.
SuppliedSessionIds == 0..(nextSessionId - 1)
SuppliedTokens == 0..(nextToken - 1)

\* the next session id is consumed when the call stored a session under it
SessionIssued(ss) == nextSessionId \in SessionIds(ss)
SessionIdAfter(ss) == IF SessionIssued(ss) THEN nextSessionId + 1 ELSE nextSessionId
SessionIdFreeWithin(ss, maxSessions) == SessionIssued(ss) => nextSessionId <= maxSessions
SessionIdFree(ss) == SessionIdFreeWithin(ss, MaxSessions)

ValidateSession ==
  \E sessionId \in SuppliedSessionIds :
    LET o == ValidateSessionOutcome(users, sessions, now, sessionId) IN
    /\ sessions' = o.sessions
    /\ lastOp' = [op |-> "validateSession", sessionId |-> sessionId,
                  result |-> o.result, sent |-> <<>>]
    /\ UNCHANGED <<users, emailVerificationCodes, passwordResetTokens, now,
                   nextUserId, nextSessionId, nextToken, calls>>

SignupWithin(maxSessions) ==
  \E email \in SignupEmails, password \in Passwords, code \in Codes, sendOk \in BOOLEAN :
    LET o == SignupOutcome(users, sessions, emailVerificationCodes, now,
                           nextUserId, nextSessionId, email, password, code, sendOk)
        created == Len(o.users) > Len(users)
    IN
    /\ SessionIdFreeWithin(o.sessions, maxSessions)
    /\ users' = o.users
    /\ sessions' = o.sessions
    /\ emailVerificationCodes' = o.codes
    /\ nextUserId' = IF created THEN nextUserId + 1 ELSE nextUserId
    /\ nextSessionId' = SessionIdAfter(o.sessions)
    /\ lastOp' = [op |-> "signup", email |-> email, password |-> password,
                  result |-> o.result, sent |-> o.sent]
    /\ UNCHANGED <<passwordResetTokens, now, nextToken, calls>>

Signup == SignupWithin(MaxSessions)

LoginWithin(maxSessions) ==
  \E email \in Emails, password \in Passwords :
    LET o == LoginOutcome(users, sessions, now, nextSessionId, email, password) IN
    /\ SessionIdFreeWithin(o.sessions, maxSessions)
    /\ sessions' = o.sessions
    /\ nextSessionId' = SessionIdAfter(o.sessions)
    /\ lastOp' = [op |-> "login", email |-> email, password |-> password,
                  result |-> o.result, sent |-> <<>>]
    /\ UNCHANGED <<users, emailVerificationCodes, passwordResetTokens, now,
                   nextUserId, nextToken, calls>>

Login == LoginWithin(MaxSessions)

CreateEmailVerificationCode ==
  \E userId \in UserIds(users), email \in Emails, code \in Codes, sendOk \in BOOLEAN :
    LET o == CreateEmailVerificationCodeOutcome(emailVerificationCodes, now,
                                                userId, email, code, sendOk) IN
    /\ emailVerificationCodes' = o.codes
    /\ lastOp' = [op |-> "createEmailVerificationCode", userId |-> userId,
                  email |-> email, result |-> o.result, sent |-> o.sent]
    /\ UNCHANGED <<users, sessions, passwordResetTokens, now,
                   nextUserId, nextSessionId, nextToken, calls>>

VerifyEmailCode ==
  \E userId \in UserIds(users), code \in Codes :
    LET user == UserView(UserById(users, userId))
        o == VerifyEmailCodeOutcome(users, sessions, emailVerificationCodes, now,
                                    nextSessionId, user, code)
    IN
    /\ SessionIdFree(o.sessions)
    /\ users' = o.users
    /\ sessions' = o.sessions
    /\ emailVerificationCodes' = o.codes
    /\ nextSessionId' = SessionIdAfter(o.sessions)
    /\ lastOp' = [op |-> "verifyEmailCode", user |-> user, code |-> code,
                  result |-> o.result, sent |-> <<>>]
    /\ UNCHANGED <<passwordResetTokens, now, nextUserId, nextToken, calls>>

Logout ==
  \E sessionId \in SuppliedSessionIds, fault \in BOOLEAN :
    LET o == LogoutOutcome(sessions, sessionId, fault) IN
    /\ sessions' = o.sessions
    /\ lastOp' = [op |-> "logout", sessionId |-> sessionId, fault |-> fault,
                  result |-> o.result, sent |-> <<>>]
    /\ UNCHANGED <<users, emailVerificationCodes, passwordResetTokens, now,
                   nextUserId, nextSessionId, nextToken, calls>>

ResetPasswordRequestWithin(maxTokens) ==
  \E domain \in Domains, email \in Emails, sendOk \in BOOLEAN :
    LET o == ResetPasswordRequestOutcome(users, passwordResetTokens, now,
                                         nextToken, domain, email, sendOk)
        issued == o.sent # <<>>
    IN
    /\ issued => nextToken <= maxTokens
    /\ passwordResetTokens' = o.tokens
    /\ nextToken' = IF issued THEN nextToken + 1 ELSE nextToken
    /\ lastOp' = [op |-> "resetPasswordRequest", domain |-> domain, email |-> email,
                  result |-> o.result, sent |-> o.sent]
    /\ UNCHANGED <<users, sessions, emailVerificationCodes, now,
                   nextUserId, nextSessionId, calls>>

ResetPasswordRequest == ResetPasswordRequestWithin(MaxTokens)

ResetPasswordWithin(maxSessions) ==
  \E newPassword \in Passwords, token \in SuppliedTokens :
    LET o == ResetPasswordOutcome(users, sessions, passwordResetTokens, now,
                                  nextSessionId, newPassword, token) IN
    /\ SessionIdFreeWithin(o.sessions, maxSessions)
    /\ users' = o.users
    /\ sessions' = o.sessions
    /\ nextSessionId' = SessionIdAfter(o.sessions)
    /\ passwordResetTokens' = o.tokens
    /\ lastOp' = [op |-> "resetPassword", newPassword |-> newPassword, token |-> token,
                  result |-> o.result, sent |-> <<>>]
    /\ UNCHANGED <<emailVerificationCodes, now, nextUserId, nextToken, calls>>

ResetPassword == ResetPasswordWithin(MaxSessions)

\* time passes between two calls
Tick ==
  \E t \in Instants :
    /\ now < t
    /\ now' = t
    /\ lastOp' = [op |-> "tick"]
    /\ UNCHANGED <<users, sessions, emailVerificationCodes, passwordResetTokens,
                   nextUserId, nextSessionId, nextToken, calls>>

Next ==
  \/ ValidateSession
  \/ Signup
  \/ Login
  \/ CreateEmailVerificationCode
  \/ VerifyEmailCode
  \/ Logout
  \/ ResetPasswordRequest
  \/ ResetPassword
  \/ Tick

Spec == Init /\ [][Next]_vars



\* ------------------------------------------- the password-reset workload
\* The calls that matter to a password reset (signup, login,
\* resetPasswordRequest, resetPassword and the passing of time), with room for
\* a second reset token and for the sessions of a signup, two resets and a
\* login between them.
MaxResetSessions == 4
MaxResetTokens == 2

Reset_Signup == SignupWithin(MaxResetSessions)
Reset_Login == LoginWithin(MaxResetSessions)
Reset_ResetPasswordRequest == ResetPasswordRequestWithin(MaxResetTokens)
Reset_ResetPassword == ResetPasswordWithin(MaxResetSessions)

NextReset ==
  \/ Reset_Signup
  \/ Reset_Login
  \/ Reset_ResetPasswordRequest
  \/ Reset_ResetPassword
  \/ Tick

SpecReset == Init /\ [][NextReset]_vars


\* ------------------------------------------------------ overlapping calls
\* Every handler is an async function: between two awaits another call can
\* run. Here each handler is taken one store statement at a time. A caller p
\* has one call in progress; calls[p] holds its arguments, the place it has
\* reached (pc), what it has read so far, and its result once it has returned.
MaxRaceSessions == 3
MaxRaceTokens == 2

SessionOps == {"signup", "login", "verifyEmailCode", "resetPassword"}
Free(p) == calls[p].pc = "done"
At(p, op, pc) == calls[p].op = op /\ calls[p].pc = pc
Pending(ops) == Cardinality({p \in Procs : calls[p].op \in ops /\ calls[p].pc # "done"})
Goto(p, pc) == calls' = [calls EXCEPT ![p].pc = pc]
Return(p, result) == calls' = [calls EXCEPT ![p].pc = "done", ![p].result = result]
\* a call that will store a session can start while an id is left for it
CanStartSessionOp(p) ==
  /\ Free(p)
  /\ nextSessionId + Pending(SessionOps) <= MaxRaceSessions

\* signup, lines 70-100
SignupStart(p) ==
  \E email \in SignupEmails, password \in Passwords :
    /\ CanStartSessionOp(p)
    /\ calls' = [calls EXCEPT ![p] = [op |-> "signup", pc |-> "lookup", email |-> email,
                                      password |-> password, userId |-> 0,
                                      result |-> Null]]
    /\ UNCHANGED <<users, sessions, emailVerificationCodes, passwordResetTokens,
                   now, nextUserId, nextSessionId, nextToken, lastOp>>

SignupLookup(p) ==
  /\ At(p, "signup", "lookup")
  /\ IF UsersByEmail(users, calls[p].email) # <<>>
     THEN Return(p, Failure("user_exists"))
     ELSE Goto(p, "insert")
  /\ UNCHANGED <<users, sessions, emailVerificationCodes, passwordResetTokens,
                 now, nextUserId, nextSessionId, nextToken, lastOp>>

SignupInsert(p) ==
  /\ At(p, "signup", "insert")
  /\ users' = Append(users, [id |-> nextUserId, email |-> calls[p].email,
                              emailVerified |-> FALSE,
                              passwordHash |-> PasswordHash(calls[p].password)])
  /\ nextUserId' = nextUserId + 1
  /\ calls' = [calls EXCEPT ![p].pc = "code", ![p].userId = nextUserId]
  /\ UNCHANGED <<sessions, emailVerificationCodes, passwordResetTokens,
                 now, nextSessionId, nextToken, lastOp>>

SignupCode(p) ==
  \E code \in Codes, sendOk \in BOOLEAN :
    /\ At(p, "signup", "code")
    /\ emailVerificationCodes' =
         CreateEmailVerificationCodeOutcome(emailVerificationCodes, now, calls[p].userId,
                                            calls[p].email, code, sendOk).codes
    /\ Goto(p, "session")
    /\ UNCHANGED <<users, sessions, passwordResetTokens,
                   now, nextUserId, nextSessionId, nextToken, lastOp>>

SignupSession(p) ==
  /\ At(p, "signup", "session")
  /\ sessions' = LuciaCreateSession(sessions, nextSessionId, calls[p].userId, now)
  /\ nextSessionId' = nextSessionId + 1
  /\ Return(p, Success([sessionId |-> nextSessionId]))
  /\ UNCHANGED <<users, emailVerificationCodes, passwordResetTokens,
                 now, nextUserId, nextToken, lastOp>>

SignupCall ==
  \E p \in Procs :
    \/ SignupStart(p)
    \/ SignupLookup(p)
    \/ SignupInsert(p)
    \/ SignupCode(p)
    \/ SignupSession(p)

\* login, lines 102-132
LoginStart(p) ==
  \E email \in SignupEmails, password \in Passwords :
    /\ CanStartSessionOp(p)
    /\ calls' = [calls EXCEPT ![p] = [op |-> "login", pc |-> "lookup", email |-> email,
                                      password |-> password, userId |-> 0,
                                      result |-> Null]]
    /\ UNCHANGED <<users, sessions, emailVerificationCodes, passwordResetTokens,
                   now, nextUserId, nextSessionId, nextToken, lastOp>>

\* the user row is read once; the password is verified against the hash read
LoginLookup(p) ==
  /\ At(p, "login", "lookup")
  /\ LET found == UsersByEmail(users, calls[p].email) IN
     IF found = <<>>
     THEN Return(p, Failure("user_not_found"))
     ELSE IF ~PasswordVerify(calls[p].password, Head(found).passwordHash)
     THEN Return(p, Failure("invalid_credentials"))
     ELSE calls' = [calls EXCEPT ![p].pc = "session", ![p].userId = Head(found).id]
  /\ UNCHANGED <<users, sessions, emailVerificationCodes, passwordResetTokens,
                 now, nextUserId, nextSessionId, nextToken, lastOp>>

LoginSession(p) ==
  /\ At(p, "login", "session")
  /\ sessions' = LuciaCreateSession(sessions, nextSessionId, calls[p].userId, now)
  /\ nextSessionId' = nextSessionId + 1
  /\ Return(p, Success([sessionId |-> nextSessionId]))
  /\ UNCHANGED <<users, emailVerificationCodes, passwordResetTokens,
                 now, nextUserId, nextToken, lastOp>>

LoginCall ==
  \E p \in Procs :
    \/ LoginStart(p)
    \/ LoginLookup(p)
    \/ LoginSession(p)

\* verifyEmailCode and checkEmailCode, lines 160-189 and 269-299
VerifyEmailCodeStart(p) ==
  \E userId \in UserIds(users), code \in Codes :
    /\ CanStartSessionOp(p)
    /\ calls' = [calls EXCEPT ![p] = [op |-> "verifyEmailCode", pc |-> "lookup",
                                      user |-> UserView(UserById(users, userId)),
                                      code |-> code, row |-> Null, result |-> Null]]
    /\ UNCHANGED <<users, sessions, emailVerificationCodes, passwordResetTokens,
                   now, nextUserId, nextSessionId, nextToken, lastOp>>

\* checkEmailCode reads the code row of the user and compares the code
VerifyEmailCodeLookup(p) ==
  /\ At(p, "verifyEmailCode", "lookup")
  /\ LET rows == {c \in emailVerificationCodes : c.userId = calls[p].user.id} IN
     IF rows = {}
     THEN Return(p, Failure("invalid_code"))
     ELSE \E row \in rows :
            IF calls[p].code # row.code
            THEN Return(p, Failure("invalid_code"))
            ELSE calls' = [calls EXCEPT ![p].pc = "delete", ![p].row = row]
  /\ UNCHANGED <<users, sessions, emailVerificationCodes, passwordResetTokens,
                 now, nextUserId, nextSessionId, nextToken, lastOp>>

\* checkEmailCode deletes the row it read, by id, then looks at what it read
VerifyEmailCodeDelete(p) ==
  /\ At(p, "verifyEmailCode", "delete")
  /\ emailVerificationCodes' = {c \in emailVerificationCodes : c.id # calls[p].row.id}
  /\ IF calls[p].row.expiresAt < now \/ calls[p].row.email # calls[p].user.email
     THEN Return(p, Failure("expired_code"))
     ELSE Goto(p, "update")
  /\ UNCHANGED <<users, sessions, passwordResetTokens,
                 now, nextUserId, nextSessionId, nextToken, lastOp>>

VerifyEmailCodeUpdate(p) ==
  /\ At(p, "verifyEmailCode", "update")
  /\ users' = [i \in 1..Len(users) |->
                 IF users[i].id = calls[p].user.id
                 THEN [users[i] EXCEPT !.emailVerified = TRUE]
                 ELSE users[i]]
  /\ Goto(p, "invalidate")
  /\ UNCHANGED <<sessions, emailVerificationCodes, passwordResetTokens,
                 now, nextUserId, nextSessionId, nextToken, lastOp>>

VerifyEmailCodeInvalidate(p) ==
  /\ At(p, "verifyEmailCode", "invalidate")
  /\ sessions' = LuciaInvalidateUserSessions(sessions, calls[p].user.id)
  /\ Goto(p, "session")
  /\ UNCHANGED <<users, emailVerificationCodes, passwordResetTokens,
                 now, nextUserId, nextSessionId, nextToken, lastOp>>

VerifyEmailCodeSession(p) ==
  /\ At(p, "verifyEmailCode", "session")
  /\ sessions' = LuciaCreateSession(sessions, nextSessionId, calls[p].user.id, now)
  /\ nextSessionId' = nextSessionId + 1
  /\ Return(p, Success([sessionId |-> nextSessionId]))
  /\ UNCHANGED <<users, emailVerificationCodes, passwordResetTokens,
                 now, nextUserId, nextToken, lastOp>>

VerifyEmailCodeCall ==
  \E p \in Procs :
    \/ VerifyEmailCodeStart(p)
    \/ VerifyEmailCodeLookup(p)
    \/ VerifyEmailCodeDelete(p)
    \/ VerifyEmailCodeUpdate(p)
    \/ VerifyEmailCodeInvalidate(p)
    \/ VerifyEmailCodeSession(p)

\* resetPasswordRequest and createPasswordResetToken, lines 201-227 and 301-320
ResetPasswordRequestStart(p) ==
  \E domain \in Domains, email \in SignupEmails :
    /\ Free(p)
    /\ nextToken + Pending({"resetPasswordRequest"}) <= MaxRaceTokens
    /\ calls' = [calls EXCEPT ![p] = [op |-> "resetPasswordRequest", pc |-> "lookup",
                                      domain |-> domain, email |-> email, userId |-> 0,
                                      tokenId |-> 0, result |-> Null]]
    /\ UNCHANGED <<users, sessions, emailVerificationCodes, passwordResetTokens,
                   now, nextUserId, nextSessionId, nextToken, lastOp>>

ResetPasswordRequestLookup(p) ==
  /\ At(p, "resetPasswordRequest", "lookup")
  /\ LET found == UsersByEmail(users, calls[p].email) IN
     IF found = <<>>
     THEN Return(p, Failure("email_not_found"))
     ELSE calls' = [calls EXCEPT ![p].pc = "delete", ![p].userId = Head(found).id]
  /\ UNCHANGED <<users, sessions, emailVerificationCodes, passwordResetTokens,
                 now, nextUserId, nextSessionId, nextToken, lastOp>>

ResetPasswordRequestDelete(p) ==
  /\ At(p, "resetPasswordRequest", "delete")
  /\ passwordResetTokens' = {k \in passwordResetTokens : k.userId # calls[p].userId}
  /\ Goto(p, "insert")
  /\ UNCHANGED <<users, sessions, emailVerificationCodes,
                 now, nextUserId, nextSessionId, nextToken, lastOp>>

\* the INSERT fails on the unique index on user_id when another call has
\* stored a token for the user since the DELETE; the handler catches nothing
ResetPasswordRequestInsert(p) ==
  /\ At(p, "resetPasswordRequest", "insert")
  /\ IF \E k \in passwordResetTokens : k.userId = calls[p].userId
     THEN /\ Return(p, [type |-> "fault", error |-> "SQLITE_CONSTRAINT_UNIQUE"])
          /\ UNCHANGED <<passwordResetTokens, nextToken>>
     ELSE /\ passwordResetTokens' =
               passwordResetTokens \cup {[tokenHash |-> Sha256(nextToken),
                                          userId |-> calls[p].userId,
                                          expiresAt |-> now + TokenExpiresIn]}
          /\ nextToken' = nextToken + 1
          /\ calls' = [calls EXCEPT ![p].pc = "send", ![p].tokenId = nextToken]
  /\ UNCHANGED <<users, sessions, emailVerificationCodes,
                 now, nextUserId, nextSessionId, lastOp>>

ResetPasswordRequestSend(p) ==
  \E sendOk \in BOOLEAN :
    /\ At(p, "resetPasswordRequest", "send")
    /\ Return(p, IF sendOk THEN Success([tokenId |-> calls[p].tokenId])
                 ELSE Failure("email_send_error"))
    /\ UNCHANGED <<users, sessions, emailVerificationCodes, passwordResetTokens,
                   now, nextUserId, nextSessionId, nextToken, lastOp>>

ResetPasswordRequestCall ==
  \E p \in Procs :
    \/ ResetPasswordRequestStart(p)
    \/ ResetPasswordRequestLookup(p)
    \/ ResetPasswordRequestDelete(p)
    \/ ResetPasswordRequestInsert(p)
    \/ ResetPasswordRequestSend(p)

\* resetPassword, lines 229-267
ResetPasswordStart(p) ==
  \E newPassword \in Passwords, token \in SuppliedTokens :
    /\ CanStartSessionOp(p)
    /\ calls' = [calls EXCEPT ![p] = [op |-> "resetPassword", pc |-> "lookup",
                                      newPassword |-> newPassword, token |-> token,
                                      userId |-> 0, result |-> Null]]
    /\ UNCHANGED <<users, sessions, emailVerificationCodes, passwordResetTokens,
                   now, nextUserId, nextSessionId, nextToken, lastOp>>

ResetPasswordLookup(p) ==
  /\ At(p, "resetPassword", "lookup")
  /\ LET rows == {k \in passwordResetTokens : k.tokenHash = Sha256(calls[p].token)} IN
     IF rows = {}
     THEN Return(p, Failure("invalid_code"))
     ELSE \E row \in rows :
            IF row.expiresAt < now
            THEN Return(p, Failure("code_expired"))
            ELSE calls' = [calls EXCEPT ![p].pc = "invalidate", ![p].userId = row.userId]
  /\ UNCHANGED <<users, sessions, emailVerificationCodes, passwordResetTokens,
                 now, nextUserId, nextSessionId, nextToken, lastOp>>

ResetPasswordInvalidate(p) ==
  /\ At(p, "resetPassword", "invalidate")
  /\ sessions' = LuciaInvalidateUserSessions(sessions, calls[p].userId)
  /\ Goto(p, "update")
  /\ UNCHANGED <<users, emailVerificationCodes, passwordResetTokens,
                 now, nextUserId, nextSessionId, nextToken, lastOp>>

ResetPasswordUpdate(p) ==
  /\ At(p, "resetPassword", "update")
  /\ users' = [i \in 1..Len(users) |->
                 IF users[i].id = calls[p].userId
                 THEN [users[i] EXCEPT !.passwordHash = PasswordHash(calls[p].newPassword)]
                 ELSE users[i]]
  /\ Goto(p, "session")
  /\ UNCHANGED <<sessions, emailVerificationCodes, passwordResetTokens,
                 now, nextUserId, nextSessionId, nextToken, lastOp>>

ResetPasswordSession(p) ==
  /\ At(p, "resetPassword", "session")
  /\ sessions' = LuciaCreateSession(sessions, nextSessionId, calls[p].userId, now)
  /\ nextSessionId' = nextSessionId + 1
  /\ Return(p, Success([sessionId |-> nextSessionId]))
  /\ UNCHANGED <<users, emailVerificationCodes, passwordResetTokens,
                 now, nextUserId, nextToken, lastOp>>

ResetPasswordCall ==
  \E p \in Procs :
    \/ ResetPasswordStart(p)
    \/ ResetPasswordLookup(p)
    \/ ResetPasswordInvalidate(p)
    \/ ResetPasswordUpdate(p)
    \/ ResetPasswordSession(p)

\* createEmailVerificationCode, lines 134-158
CreateEmailVerificationCodeStart(p) ==
  \E userId \in UserIds(users), email \in SignupEmails :
    /\ Free(p)
    /\ calls' = [calls EXCEPT ![p] = [op |-> "createEmailVerificationCode",
                                      pc |-> "delete", userId |-> userId,
                                      email |-> email, code |-> Null, result |-> Null]]
    /\ UNCHANGED <<users, sessions, emailVerificationCodes, passwordResetTokens,
                   now, nextUserId, nextSessionId, nextToken, lastOp>>

CreateEmailVerificationCodeDelete(p) ==
  /\ At(p, "createEmailVerificationCode", "delete")
  /\ emailVerificationCodes' =
       {c \in emailVerificationCodes : c.userId # calls[p].userId}
  /\ Goto(p, "insert")
  /\ UNCHANGED <<users, sessions, passwordResetTokens,
                 now, nextUserId, nextSessionId, nextToken, lastOp>>

\* the INSERT fails on the unique index on user_id when another call has
\* stored a code for the user since the DELETE; the handler catches nothing
CreateEmailVerificationCodeInsert(p) ==
  \E code \in Codes :
    /\ At(p, "createEmailVerificationCode", "insert")
    /\ IF \E c \in emailVerificationCodes : c.userId = calls[p].userId
       THEN /\ Return(p, [type |-> "fault", error |-> "SQLITE_CONSTRAINT_UNIQUE"])
            /\ UNCHANGED emailVerificationCodes
       ELSE /\ emailVerificationCodes' =
                 emailVerificationCodes
                   \cup {[id |-> NextCodeRowId(emailVerificationCodes), code |-> code,
                          userId |-> calls[p].userId, email |-> calls[p].email,
                          expiresAt |-> now + CodeExpiresIn]}
            /\ calls' = [calls EXCEPT ![p].pc = "send", ![p].code = code]
    /\ UNCHANGED <<users, sessions, passwordResetTokens,
                   now, nextUserId, nextSessionId, nextToken, lastOp>>

CreateEmailVerificationCodeSend(p) ==
  \E sendOk \in BOOLEAN :
    /\ At(p, "createEmailVerificationCode", "send")
    /\ Return(p, IF sendOk THEN Success("null") ELSE Failure("email_send_error"))
    /\ UNCHANGED <<users, sessions, emailVerificationCodes, passwordResetTokens,
                   now, nextUserId, nextSessionId, nextToken, lastOp>>

CreateEmailVerificationCodeCall ==
  \E p \in Procs :
    \/ CreateEmailVerificationCodeStart(p)
    \/ CreateEmailVerificationCodeDelete(p)
    \/ CreateEmailVerificationCodeInsert(p)
    \/ CreateEmailVerificationCodeSend(p)

\* overlapping signups
NextSignupRace == SignupCall
SpecSignupRace == Init /\ [][NextSignupRace]_vars

\* overlapping verifyEmailCode calls, after signups
NextVerifyRace == SignupCall \/ VerifyEmailCodeCall
SpecVerifyRace == Init /\ [][NextVerifyRace]_vars

\* a login overlapping a resetPassword, after a signup and a resetPasswordRequest
NextResetRace == SignupCall \/ LoginCall \/ ResetPasswordRequestCall \/ ResetPasswordCall
SpecResetRace == Init /\ [][NextResetRace]_vars

\* overlapping createEmailVerificationCode calls and overlapping
\* resetPasswordRequest calls, after a signup
\* the signup that creates the user the overlapping calls are for
FirstSignup ==
  \E p \in Procs :
    \/ SignupStart(p) /\ users = <<>> /\ Pending({"signup"}) = 0
    \/ SignupLookup(p)
    \/ SignupInsert(p)
    \/ SignupCode(p)
    \/ SignupSession(p)

NextRequestRace ==
  FirstSignup \/ CreateEmailVerificationCodeCall \/ ResetPasswordRequestCall
SpecRequestRace == Init /\ [][NextRequestRace]_vars

\* =============================================================== claims
\* A step that is a call of handler op (every handler records its call).
Called(op) == lastOp'.op = op
Returned(op) == lastOp.op = op
Rows(us) == {us[i] : i \in 1..Len(us)}
WithEmail(us, email) == {u \in Rows(us) : u.email = email}
IsNewSessionOf(sessionId, userId) ==
  /\ sessionId >= 1
  /\ sessionId \notin SessionIds(sessions)
  /\ \E s \in sessions' : s.id = sessionId /\ s.userId = userId

\* C1: signup with an email that no stored user has returns success with a
\* session id, and afterwards a user with that email exists, unverified, and
\* owns that session; as stored users stay stored, a later signup with the
\* same email returns failure user_exists.
C1_Signup ==
  [][/\ Called("signup") =>
          LET r == lastOp'.result IN
          IF WithEmail(users, lastOp'.email) = {}
          THEN /\ r.type = "success"
               /\ \E u \in WithEmail(users', lastOp'.email) :
                    /\ u.emailVerified = FALSE
                    /\ IsNewSessionOf(r.data.sessionId, u.id)
          ELSE r = Failure("user_exists")
     /\ \A u \in Rows(users) : WithEmail(users', u.email) # {}
    ]_vars

C1_Witness ==
  /\ Returned("signup")
  /\ lastOp.result = Failure("user_exists")
  /\ \E u \in WithEmail(users, lastOp.email) : \E s \in sessions : s.userId = u.id

\* C2: login returns failure user_not_found when no user has the email,
\* failure invalid_credentials when a user has it but the password is not the
\* one the stored hash was made from, and otherwise success with the id of a
\* newly created session bound to that user.
C2_Login ==
  [][Called("login") =>
       LET r == lastOp'.result
           found == WithEmail(users, lastOp'.email)
       IN
       IF found = {} THEN r = Failure("user_not_found")
       ELSE \A u \in found :
              IF u.passwordHash # PasswordHash(lastOp'.password)
              THEN r = Failure("invalid_credentials")
              ELSE r.type = "success" /\ IsNewSessionOf(r.data.sessionId, u.id)
    ]_vars

C2_Witness ==
  /\ Returned("login")
  /\ lastOp.result.type = "success"
  /\ \E u \in WithEmail(users, lastOp.email) :
       /\ u.passwordHash = PasswordHash(lastOp.password)
       /\ \E s \in sessions : s.id = lastOp.result.data.sessionId /\ s.userId = u.id

\* C3: verifyEmailCode(user, code): when the code stored for the user equals
\* the supplied one, is not past its expiry and targets the user's email, the
\* user's emailVerified becomes true and the result is success with a new
\* session id; when it equals the supplied one but is past its expiry the
\* result is failure expired_code and emailVerified is unchanged; when no code
\* is stored for the user or the supplied one differs, the result is failure
\* invalid_code.
C3_VerifyEmailCode ==
  [][Called("verifyEmailCode") =>
       LET r == lastOp'.result
           user == lastOp'.user
           rows == {c \in emailVerificationCodes : c.userId = user.id}
       IN
       /\ rows = {} => r = Failure("invalid_code")
       /\ \A c \in rows :
            /\ c.code # lastOp'.code => r = Failure("invalid_code")
            /\ c.code = lastOp'.code /\ now > c.expiresAt =>
                 /\ r = Failure("expired_code")
                 /\ UserById(users', user.id).emailVerified
                      = UserById(users, user.id).emailVerified
            /\ c.code = lastOp'.code /\ ~(now > c.expiresAt) /\ c.email = user.email =>
                 /\ r.type = "success"
                 /\ UserById(users', user.id).emailVerified = TRUE
                 /\ IsNewSessionOf(r.data.sessionId, user.id)
    ]_vars

C3_Witness ==
  /\ Returned("verifyEmailCode")
  /\ lastOp.result.type = "success"
  /\ UserById(users, lastOp.user.id).emailVerified = TRUE
  /\ lastOp.user.emailVerified = FALSE


\* The result login would give after the step, for a password.
LoginAfter(email, password) ==
  LoginOutcome(users', sessions', now', nextSessionId', email, password).result

\* C4, as claimed: resetPassword with a stored, unexpired token replaces the
\* user's password hash so that login with newPassword succeeds and login with
\* the old password returns invalid_credentials, and returns success with a
\* new session id; an unknown token gives invalid_code; a token past its
\* expiry gives code_expired and leaves the password unchanged.
C4_AsClaimed ==
  [][Called("resetPassword") =>
       LET r == lastOp'.result
           rows == {k \in passwordResetTokens : k.tokenHash = Sha256(lastOp'.token)}
       IN
       /\ rows = {} => r = Failure("invalid_code")
       /\ \A k \in rows :
            /\ now > k.expiresAt => r = Failure("code_expired") /\ users' = users
            /\ ~(now > k.expiresAt) =>
                 LET u == UserById(users, k.userId) IN
                 /\ r.type = "success"
                 /\ IsNewSessionOf(r.data.sessionId, k.userId)
                 /\ LoginAfter(u.email, lastOp'.newPassword).type = "success"
                 /\ \A p \in Passwords :
                      u.passwordHash = PasswordHash(p) =>
                        LoginAfter(u.email, p) = Failure("invalid_credentials")
    ]_vars

\* C4, amended: as claimed, except that login with the old password returns
\* invalid_credentials when the old password differs from newPassword.
C4_ResetPassword ==
  [][Called("resetPassword") =>
       LET r == lastOp'.result
           rows == {k \in passwordResetTokens : k.tokenHash = Sha256(lastOp'.token)}
       IN
       /\ rows = {} => r = Failure("invalid_code")
       /\ \A k \in rows :
            /\ now > k.expiresAt => r = Failure("code_expired") /\ users' = users
            /\ ~(now > k.expiresAt) =>
                 LET u == UserById(users, k.userId) IN
                 /\ r.type = "success"
                 /\ IsNewSessionOf(r.data.sessionId, k.userId)
                 /\ LoginAfter(u.email, lastOp'.newPassword).type = "success"
                 /\ \A p \in Passwords \ {lastOp'.newPassword} :
                      u.passwordHash = PasswordHash(p) =>
                        LoginAfter(u.email, p) = Failure("invalid_credentials")
    ]_vars

C4_Witness ==
  /\ Returned("resetPassword")
  /\ lastOp.result.type = "success"
  /\ \E u \in Rows(users) :
       /\ u.passwordHash = PasswordHash(lastOp.newPassword)
       /\ \E x \in sessions : x.id = lastOp.result.data.sessionId /\ x.userId = u.id

\* C5: resetPasswordRequest(domain, email) for the email of a stored user stores
\* a reset token for that user expiring 2 hours after the call, sends exactly
\* one reset email, to that email and with the link
\* domain + "/reset-password?token=" + token, and returns success with that
\* token, or failure email_send_error when the email service returned failure;
\* for an email of no stored user it returns failure email_not_found and sends
\* no email.
C5_ResetPasswordRequest ==
  [][Called("resetPasswordRequest") =>
       LET r == lastOp'.result
           sent == lastOp'.sent
           found == WithEmail(users, lastOp'.email)
       IN
       IF found = {} THEN r = Failure("email_not_found") /\ sent = <<>>
       ELSE \A u \in found :
              /\ Len(sent) = 1
              /\ sent[1].kind = "reset"
              /\ sent[1].to = lastOp'.email
              /\ \E token \in 1..MaxTokens :
                   /\ sent[1].link = <<lastOp'.domain, "/reset-password?token=", token>>
                   /\ [tokenHash |-> Sha256(token), userId |-> u.id,
                       expiresAt |-> now + 2 * 60] \in passwordResetTokens'
                   /\ sent[1].ok => r = Success([tokenId |-> token])
              /\ ~sent[1].ok => r = Failure("email_send_error")
    ]_vars

C5_Witness ==
  /\ Returned("resetPasswordRequest")
  /\ lastOp.result.type = "success"
  /\ \E k \in passwordResetTokens :
       /\ k.tokenHash = Sha256(lastOp.result.data.tokenId)
       /\ k.expiresAt = now + 2 * 60

C7_ValidateSession ==
  [][Called("validateSession") =>
       LET r == lastOp'.result
           live == {x \in sessions : /\ x.id = lastOp'.sessionId
                                    /\ now < x.expiresAt
                                    /\ \E u \in Rows(users) : u.id = x.userId}
       IN
       /\ live = {} => r = Failure("invalid_session")
       /\ \A x \in live : \A u \in Rows(users) :
            u.id = x.userId =>
              /\ r.type = "success"
              /\ r.data.user = [id |-> u.id, email |-> u.email,
                                emailVerified |-> u.emailVerified]
    ]_vars

C7_Witness ==
  /\ Returned("validateSession")
  /\ lastOp.result.type = "success"
  /\ \E u \in Rows(users) : lastOp.result.data.user.id = u.id
  /\ \E x \in sessions : x.id = lastOp.sessionId

\* 15 days, in minutes
FifteenDays == 21600

\* C8: validateSession on a valid session with more than 15 days left until
\* expiresAt returns success without a freshSessionId; with less than 15 days
\* left it returns success with a freshSessionId.
C8_Fresh ==
  [][Called("validateSession") =>
       LET r == lastOp'.result IN
       \A x \in sessions :
         (/\ x.id = lastOp'.sessionId
          /\ now < x.expiresAt
          /\ x.userId \in UserIds(users)) =>
           /\ r.type = "success"
           /\ x.expiresAt - now > FifteenDays => "freshSessionId" \notin DOMAIN r.data
           /\ x.expiresAt - now < FifteenDays => "freshSessionId" \in DOMAIN r.data
    ]_vars

C8_Witness ==
  /\ Returned("validateSession")
  /\ lastOp.result.type = "success"
  /\ "freshSessionId" \in DOMAIN lastOp.result.data

\* the user a session-creating call acted for
ActedFor ==
  CASE lastOp.op \in {"signup", "login"} ->
         {u.id : u \in WithEmail(users, lastOp.email)}
    [] lastOp.op = "verifyEmailCode" -> {lastOp.user.id}
    [] lastOp.op = "resetPassword" ->
         {k.userId : k \in {k \in passwordResetTokens :
                              k.tokenHash = Sha256(lastOp.token)}}
    [] OTHER -> {}

\* C9: when signup, login, verifyEmailCode or resetPassword has returned
\* success, the session it returned is stored with expiresAt 30 days after the
\* call (more than 29 and less than 31 days) and with the userId of the user
\* the call acted for.
C9_SessionExpiry ==
  (lastOp.op \in {"signup", "login", "verifyEmailCode", "resetPassword"}
     /\ lastOp.result.type = "success") =>
    \E x \in sessions :
      /\ x.id = lastOp.result.data.sessionId
      /\ x.expiresAt = now + 30 * 24 * 60
      /\ x.expiresAt > now + 29 * 24 * 60
      /\ x.expiresAt < now + 31 * 24 * 60
      /\ ActedFor = {x.userId}

C9_Witness ==
  /\ Returned("verifyEmailCode")
  /\ lastOp.result.type = "success"
  /\ now > 0
  /\ \E x \in sessions :
       x.id = lastOp.result.data.sessionId /\ x.expiresAt = now + 30 * 24 * 60

\* C10: a signup with an email that no stored user has calls sendConfirmEmail
\* exactly once, with that email and the generated code, and leaves exactly one
\* stored verification code for the new user, whose email field is the signup
\* email; a signup that returns user_exists sends no email.
C10_SignupEmail ==
  [][Called("signup") =>
       LET sent == lastOp'.sent IN
       /\ WithEmail(users, lastOp'.email) = {} =>
            /\ Len(sent) = 1
            /\ sent[1].kind = "confirm"
            /\ sent[1].to = lastOp'.email
            /\ \A u \in WithEmail(users', lastOp'.email) :
                 LET rows == {c \in emailVerificationCodes' : c.userId = u.id} IN
                 /\ Cardinality(rows) = 1
                 /\ \A c \in rows : c.email = lastOp'.email /\ c.code = sent[1].code
       /\ lastOp'.result = Failure("user_exists") => sent = <<>>
    ]_vars

C10_Witness ==
  /\ Returned("signup")
  /\ lastOp.result.type = "success"
  /\ Len(lastOp.sent) = 1
  /\ \E c \in emailVerificationCodes :
       c.email = lastOp.email /\ c.code = lastOp.sent[1].code


\* C11, as claimed: when the email service returns failure during a signup
\* with an email that no stored user has, the user row is still created and
\* signup returns failure email_send_error.
C11_AsClaimed ==
  [][(/\ Called("signup")
      /\ WithEmail(users, lastOp'.email) = {}
      /\ Len(lastOp'.sent) = 1
      /\ ~lastOp'.sent[1].ok) =>
       /\ WithEmail(users', lastOp'.email) # {}
       /\ lastOp'.result = Failure("email_send_error")
    ]_vars

\* C11, amended: when the email service returns failure during a signup with
\* an email that no stored user has, the user row is still created, and signup
\* returns success with the id of a new session of that user: the result of
\* createEmailVerificationCode is not looked at.
C11_SignupSendFailure ==
  [][(/\ Called("signup")
      /\ WithEmail(users, lastOp'.email) = {}
      /\ Len(lastOp'.sent) = 1
      /\ ~lastOp'.sent[1].ok) =>
       /\ lastOp'.result.type = "success"
       /\ \E u \in WithEmail(users', lastOp'.email) :
            IsNewSessionOf(lastOp'.result.data.sessionId, u.id)
    ]_vars

C11_Witness ==
  /\ Returned("signup")
  /\ Len(lastOp.sent) = 1
  /\ ~lastOp.sent[1].ok
  /\ lastOp.result.type = "success"
  /\ WithEmail(users, lastOp.email) # {}


\* the verification codes stored for a user
CodesOf(cs, userId) == {c \in cs : c.userId = userId}

ValidateAfter(sessionId) ==
  ValidateSessionOutcome(users', sessions', now', sessionId).result

\* C13: after a successful verifyEmailCode for a user, every session of that
\* user stored before the call is invalid (validateSession of its id returns
\* invalid_session) and the returned sessionId is a valid session of that user
\* (validateSession of it returns success with that user).
C13_VerifyInvalidates ==
  [][(Called("verifyEmailCode") /\ lastOp'.result.type = "success") =>
       /\ \A x \in sessions :
            x.userId = lastOp'.user.id =>
              ValidateAfter(x.id) = Failure("invalid_session")
       /\ ValidateAfter(lastOp'.result.data.sessionId).type = "success"
       /\ ValidateAfter(lastOp'.result.data.sessionId).data.user.id = lastOp'.user.id
    ]_vars

C13_Witness ==
  /\ Returned("verifyEmailCode")
  /\ lastOp.result.type = "success"
  /\ lastOp.result.data.sessionId = 2
  /\ SessionIds(sessions) = {2}
  /\ \A x \in sessions : x.userId = lastOp.user.id


\* C16: in every state at most one verification code is stored per user;
\* createEmailVerificationCode(userId, email) replaces the user's earlier code
\* by the new one, so that afterwards verifyEmailCode with the earlier code
\* value, when it differs from the new one, returns invalid_code.
C16_OneCodePerUser ==
  [][/\ \A id \in UserIds(users') :
          Cardinality(CodesOf(emailVerificationCodes', id)) <= 1
     /\ Called("createEmailVerificationCode") =>
          LET userId == lastOp'.userId
              new == lastOp'.sent[1].code
          IN
          /\ \A c \in CodesOf(emailVerificationCodes', userId) :
               /\ c.code = new
               /\ c.email = lastOp'.email
               /\ c.expiresAt = now + 15
          /\ CodesOf(emailVerificationCodes', userId) # {}
          /\ \A c \in CodesOf(emailVerificationCodes, userId) :
               c.code # new =>
                 VerifyEmailCodeOutcome(users', sessions', emailVerificationCodes', now',
                                        nextSessionId', UserView(UserById(users', userId)),
                                        c.code).result = Failure("invalid_code")
    ]_vars

C16_Witness ==
  /\ Returned("createEmailVerificationCode")
  /\ Cardinality(CodesOf(emailVerificationCodes, lastOp.userId)) = 1
  /\ \A c \in CodesOf(emailVerificationCodes, lastOp.userId) :
       /\ c.code = lastOp.sent[1].code
       /\ c.code = "22222222"
       /\ VerifyEmailCodeOutcome(users, sessions, emailVerificationCodes, now,
                                 nextSessionId, UserView(UserById(users, lastOp.userId)),
                                 "11111111").result = Failure("invalid_code")


TokensOf(ts, userId) == {k \in ts : k.userId = userId}

\* C17: in every state at most one reset token is stored per user; a
\* resetPasswordRequest for a user who already has a token supersedes it:
\* afterwards resetPassword with the earlier token returns invalid_code.
C17_OneTokenPerUser ==
  [][/\ \A id \in UserIds(users') :
          Cardinality(TokensOf(passwordResetTokens', id)) <= 1
     /\ (Called("resetPasswordRequest") /\ lastOp'.sent # <<>>) =>
          /\ Sha256(nextToken) \in {k.tokenHash : k \in passwordResetTokens'}
          /\ \A token \in 1..(nextToken - 1), p \in Passwords :
               ResetPasswordOutcome(users', sessions', passwordResetTokens', now',
                                    nextSessionId', p, token).result
                 = Failure("invalid_code")
    ]_vars

C17_Witness ==
  /\ Returned("resetPasswordRequest")
  /\ lastOp.sent # <<>>
  /\ nextToken = 3
  /\ {k.tokenHash : k \in passwordResetTokens} = {Sha256(2)}
  /\ ResetPasswordOutcome(users, sessions, passwordResetTokens, now,
                          nextSessionId, "pw2", 1).result = Failure("invalid_code")


\* C19: a reset token is not consumed by resetPassword. No call other than
\* resetPasswordRequest changes the stored tokens, and after a successful
\* resetPassword(p, t), at every instant at which the token has not expired, a
\* second resetPassword(p2, t) succeeds too: it replaces the password again,
\* stores a new session and invalidates the sessions issued before it, the one
\* the first call returned included. So does a second call that follows the
\* first at once.
C19_TokenReusable ==
  [][/\ ~Called("resetPasswordRequest") => passwordResetTokens' = passwordResetTokens
     /\ (Called("resetPassword") /\ lastOp'.result.type = "success") =>
          \A k \in passwordResetTokens', p2 \in Passwords, t \in Instants :
            (/\ k.tokenHash = Sha256(lastOp'.token)
             /\ t >= now'
             /\ ~(t > k.expiresAt)) =>
              LET o == ResetPasswordOutcome(users', sessions', passwordResetTokens', t,
                                            nextSessionId', p2, lastOp'.token)
              IN
              /\ o.result = Success([sessionId |-> nextSessionId'])
              /\ UserById(o.users, k.userId).passwordHash = PasswordHash(p2)
              /\ {x \in o.sessions : x.userId = k.userId}
                   = {[id |-> nextSessionId', userId |-> k.userId,
                       expiresAt |-> t + SessionExpiresIn]}
              /\ lastOp'.result.data.sessionId \notin SessionIds(o.sessions)
     /\ (/\ Returned("resetPassword") /\ lastOp.result.type = "success"
         /\ Called("resetPassword") /\ lastOp'.token = lastOp.token) =>
          /\ lastOp'.result.type = "success"
          /\ lastOp.result.data.sessionId \notin SessionIds(sessions')
          /\ \E u \in Rows(users') : u.passwordHash = PasswordHash(lastOp'.newPassword)
    ]_vars

C19_Witness ==
  /\ Returned("resetPassword")
  /\ lastOp.result.type = "success"
  /\ lastOp.result.data.sessionId >= 3
  /\ nextToken = 2
  /\ lastOp.token = 1
  /\ \E k \in passwordResetTokens : k.tokenHash = Sha256(1) /\ ~(now > k.expiresAt)
  /\ \E u \in Rows(users) : u.passwordHash = PasswordHash(lastOp.newPassword)


\* a call of handler op by caller p has returned success
Succeeded(p, op) ==
  calls[p].op = op /\ calls[p].pc = "done" /\ calls[p].result.type = "success"

\* C14: no stale session survives a password change, whatever the
\* interleaving of resetPassword with a login that uses the old password: once
\* a resetPassword has returned success, a session that a login returned is
\* valid only if the password given to that login is the user's password.
C14_AsClaimed ==
  \A p, q \in Procs :
    (Succeeded(p, "resetPassword") /\ Succeeded(q, "login")) =>
      \A x \in sessions :
        (/\ x.id = calls[q].result.data.sessionId
         /\ ValidateSessionOutcome(users, sessions, now, x.id).result.type = "success") =>
          UserById(users, x.userId).passwordHash = PasswordHash(calls[q].password)

\* C15: user emails are unique in every reachable state, whatever the
\* interleaving of signups with the same email: at most one user row has a
\* given email.
C15_AsClaimed ==
  \A email \in Emails : Cardinality(WithEmail(users, email)) <= 1

\* C20: a verification code yields at most one successful verifyEmailCode:
\* of two calls for the same user that read the same stored code row, whatever
\* their interleaving, at most one returns success.
C20_AsClaimed ==
  \A p, q \in Procs :
    (/\ p # q
     /\ Succeeded(p, "verifyEmailCode")
     /\ calls[q].op = "verifyEmailCode" /\ calls[q].pc = "done"
     /\ calls[q].user.id = calls[p].user.id
     /\ calls[q].code = calls[p].code
     /\ calls[q].row = calls[p].row) =>
      calls[q].result.type = "failure"


\* C21: when the email service returns failure, createEmailVerificationCode
\* returns failure email_send_error, yet the code it generated is the one
\* code stored for the user (the earlier one is gone), so that a
\* verifyEmailCode with that code for that user, whose email is the one the
\* code was issued for, succeeds afterwards.
C21_CodeKeptOnSendFailure ==
  [][/\ (Called("createEmailVerificationCode") /\ ~lastOp'.sent[1].ok) =>
          LET userId == lastOp'.userId
              code == lastOp'.sent[1].code
              user == UserView(UserById(users', userId))
          IN
          /\ lastOp'.result = Failure("email_send_error")
          /\ CodesOf(emailVerificationCodes', userId)
               = {c \in emailVerificationCodes' :
                    /\ c.userId = userId /\ c.code = code
                    /\ c.email = lastOp'.email /\ c.expiresAt = now + 15}
          /\ Cardinality(CodesOf(emailVerificationCodes', userId)) = 1
          /\ \A c \in CodesOf(emailVerificationCodes, userId) :
               c.code # code => c \notin emailVerificationCodes'
          /\ lastOp'.email = user.email =>
               VerifyEmailCodeOutcome(users', sessions', emailVerificationCodes', now',
                                      nextSessionId', user, code).result.type = "success"
     /\ (/\ Returned("createEmailVerificationCode")
         /\ lastOp.result = Failure("email_send_error")
         /\ Called("verifyEmailCode")
         /\ lastOp'.user.id = lastOp.userId
         /\ lastOp'.user.email = lastOp.email
         /\ lastOp'.code = lastOp.sent[1].code) =>
          lastOp'.result.type = "success"
    ]_vars

C21_Witness ==
  /\ Returned("createEmailVerificationCode")
  /\ lastOp.result = Failure("email_send_error")
  /\ \E c \in CodesOf(emailVerificationCodes, lastOp.userId) :
       /\ c.code = lastOp.sent[1].code
       /\ c.code = "22222222"
       /\ VerifyEmailCodeOutcome(users, sessions, emailVerificationCodes, now,
                                 nextSessionId, UserView(UserById(users, lastOp.userId)),
                                 c.code).result.type = "success"


\* C22: verifyEmailCode(user, code) with a stored code for the user that
\* matches, is not past its expiry and was issued for an email other than
\* user.email returns failure expired_code, deletes the stored code, leaves
\* the users table (emailVerified included) unchanged and creates or
\* invalidates no session.
C22_EmailMismatch ==
  [][Called("verifyEmailCode") =>
       \A c \in CodesOf(emailVerificationCodes, lastOp'.user.id) :
         (/\ c.code = lastOp'.code
          /\ ~(now > c.expiresAt)
          /\ c.email # lastOp'.user.email) =>
           /\ lastOp'.result = Failure("expired_code")
           /\ c \notin emailVerificationCodes'
           /\ CodesOf(emailVerificationCodes', lastOp'.user.id) = {}
           /\ users' = users
           /\ sessions' = sessions
           /\ nextSessionId' = nextSessionId
    ]_vars

C22_Witness ==
  /\ Returned("verifyEmailCode")
  /\ lastOp.result = Failure("expired_code")
  /\ now = 0
  /\ CodesOf(emailVerificationCodes, lastOp.user.id) = {}
  /\ sessions # {}
  /\ UserById(users, lastOp.user.id).emailVerified = FALSE


\* C23: every call ends with a tagged success or failure result, never with
\* an unhandled fault, whatever the interleaving of the calls; so do two
\* overlapping createEmailVerificationCode calls, and two overlapping
\* resetPasswordRequest calls, for the same user.
C23_AsClaimed ==
  \A p \in Procs :
    (calls[p].op # "idle" /\ calls[p].pc = "done") =>
      calls[p].result.type \in {"success", "failure"}


\* the failures that come from a lookup that found nothing usable
FailedLookups ==
  [signup |-> {Failure("user_exists")},
   login |-> {Failure("user_not_found"), Failure("invalid_credentials")},
   verifyEmailCode |-> {Failure("invalid_code")},
   resetPasswordRequest |-> {Failure("email_not_found")},
   resetPassword |-> {Failure("invalid_code"), Failure("code_expired")}]

\* C24: failed lookups change nothing: a signup returning user_exists, a login
\* returning user_not_found or invalid_credentials, a verifyEmailCode returning
\* invalid_code, a resetPasswordRequest returning email_not_found and a
\* resetPassword returning invalid_code or code_expired leave users, sessions,
\* verification codes and reset tokens unchanged and send no email.
C24_FailedLookups ==
  [][\A op \in DOMAIN FailedLookups :
       (Called(op) /\ lastOp'.result \in FailedLookups[op]) =>
         /\ users' = users
         /\ sessions' = sessions
         /\ emailVerificationCodes' = emailVerificationCodes
         /\ passwordResetTokens' = passwordResetTokens
         /\ lastOp'.sent = <<>>
    ]_vars

C24_Witness ==
  /\ Returned("resetPassword")
  /\ lastOp.result = Failure("code_expired")
  /\ sessions # {}
  /\ passwordResetTokens # {}


NearExpiry ==
  {x \in sessions : /\ x.id = lastOp'.sessionId
                    /\ x.userId \in UserIds(users)
                    /\ now < x.expiresAt
                    /\ x.expiresAt - now < FifteenDays}

C27_TokenHashed ==
  [][/\ \A k \in passwordResetTokens' :
          /\ k.tokenHash.alg = "sha256"
          /\ \E token \in 1..(nextToken' - 1) : k.tokenHash = Sha256(token)
     /\ (Called("resetPasswordRequest") /\ lastOp'.sent # <<>>) =>
          LET token == lastOp'.sent[1].link[3] IN
          /\ token = nextToken
          /\ \A u \in WithEmail(users, lastOp'.email) :
               {k.tokenHash : k \in TokensOf(passwordResetTokens', u.id)}
                 = {Sha256(token)}
          /\ lastOp'.result.type = "success" => lastOp'.result.data.tokenId = token
     /\ Called("resetPassword") =>
          (lastOp'.result # Failure("invalid_code")
             <=> \E k \in passwordResetTokens : k.tokenHash = Sha256(lastOp'.token))
    ]_vars

C27_Witness ==
  /\ Returned("resetPassword")
  /\ lastOp.result.type = "success"
  /\ lastOp.token = 2
  /\ {k.tokenHash : k \in passwordResetTokens} = {Sha256(2)}

====
